---- MODULE Spec2Model ----
(***************************************************************************)
(* A model of the EKF SLAM repository: the SE(2) transform algebra of     *)
(* turtlelib (se2d.cpp), angle normalisation, the odometry node and the    *)
(* SLAM node with its EKF predict / update steps.                          *)
(*                                                                         *)
(* Numbers.  The program computes in IEEE doubles.  The model computes in  *)
(* binary floating point as well, with round-to-nearest-even after every   *)
(* operation, NaN and the two infinities, but with a significand of        *)
(* MANT_BITS bits instead of 53 (TLC's integers hold 31 bits, so a product *)
(* of two significands must fit in 30).  The exponent is unbounded.  A     *)
(* number is a record [m |-> significand, e |-> exponent] of value m*2^e,  *)
(* in the canonical form m = 0, e = 0 or 2^(MANT_BITS-1) <= |m| <          *)
(* 2^MANT_BITS; so equality of records is equality of values.              *)
(***************************************************************************)
EXTENDS Integers, Sequences, FiniteSets, TLC

\* ------------------------------------------------------------------------
\* Floating point
\* ------------------------------------------------------------------------

\* f itself, tabulated by TLC so that its entries are computed once
Tab(f) == IF f = f THEN f ELSE f

\* F(x), the value x computed before F is entered, as a statement of the
\* program has its value before the next one runs (TLC computes the argument
\* of a function where it is applied, and that of an operator only where the
\* operator first reads it)
Let(x, F(_)) == [v \in {x} |-> F(v)][x]

\* the width of the significand of a double, as far as TLC's integers allow
MANT_BITS == 15

Pow2 == [i \in 0..30 |-> 2^i]

Abs(n) == IF n < 0 THEN -n ELSE n
Sgn(n) == IF n < 0 THEN -1 ELSE 1

Zero == [m |-> 0, e |-> 0]
NaN == [m |-> 0, e |-> 1]
PosInf == [m |-> 0, e |-> 2]
NegInf == [m |-> 0, e |-> 3]

IsSpecial(x) == x.m = 0 /\ x.e # 0
IsNaN(x) == x = NaN
IsInf(x) == x = PosInf \/ x = NegInf
IsFinite(x) == ~IsSpecial(x)

\* the number of bits of a, 1 <= a < 2^31
BitLen(a) ==
  IF a < 65536
  THEN IF a < 256
       THEN IF a < 16
            THEN (IF a < 4 THEN (IF a < 2 THEN 1 ELSE 2) ELSE (IF a < 8 THEN 3 ELSE 4))
            ELSE (IF a < 64 THEN (IF a < 32 THEN 5 ELSE 6) ELSE (IF a < 128 THEN 7 ELSE 8))
       ELSE IF a < 4096
            THEN (IF a < 1024 THEN (IF a < 512 THEN 9 ELSE 10) ELSE (IF a < 2048 THEN 11 ELSE 12))
            ELSE (IF a < 16384 THEN (IF a < 8192 THEN 13 ELSE 14) ELSE (IF a < 32768 THEN 15 ELSE 16))
  ELSE IF a < 16777216
       THEN IF a < 1048576
            THEN (IF a < 262144 THEN (IF a < 131072 THEN 17 ELSE 18) ELSE (IF a < 524288 THEN 19 ELSE 20))
            ELSE (IF a < 4194304 THEN (IF a < 2097152 THEN 21 ELSE 22) ELSE (IF a < 8388608 THEN 23 ELSE 24))
       ELSE IF a < 268435456
            THEN (IF a < 67108864 THEN (IF a < 33554432 THEN 25 ELSE 26) ELSE (IF a < 134217728 THEN 27 ELSE 28))
            ELSE (IF a < 1073741824 THEN (IF a < 536870912 THEN 29 ELSE 30) ELSE 31)

\* sg * q * 2^e for the rounded significand q, which rounding may have
\* carried up to 2^MANT_BITS
NormCarry(sg, q, e) ==
  IF q = Pow2[MANT_BITS] THEN [m |-> sg * Pow2[MANT_BITS - 1], e |-> e + 1]
  ELSE [m |-> sg * q, e |-> e]

\* sg * (q + r / (2 * half)) * 2^e rounded to the nearest q, ties to even
NormRound(sg, q, r, half, e) ==
  NormCarry(sg, IF r > half \/ (r = half /\ q % 2 = 1) THEN q + 1 ELSE q, e)

\* m * 2^e for a = |m| of n bits
NormBits(m, e, a, n) ==
  IF n <= MANT_BITS
  THEN [m |-> m * Pow2[MANT_BITS - n], e |-> e - (MANT_BITS - n)]
  ELSE NormRound(Sgn(m), a \div Pow2[n - MANT_BITS], a % Pow2[n - MANT_BITS],
                 Pow2[n - MANT_BITS - 1], e + (n - MANT_BITS))

\* the double nearest to m * 2^e (ties to even), |m| < 2^31
Norm(m, e) == IF m = 0 THEN Zero ELSE NormBits(m, e, Abs(m), BitLen(Abs(m)))

FromInt(n) == Norm(n, 0)

FNeg(x) ==
  IF x.m = 0
  THEN (IF x = PosInf THEN NegInf ELSE IF x = NegInf THEN PosInf ELSE x)
  ELSE [m |-> -x.m, e |-> x.e]

\* -1, 0 or 1; a NaN has no sign and gives 0
FSign(x) ==
  IF IsSpecial(x)
  THEN (IF x = PosInf THEN 1 ELSE IF x = NegInf THEN -1 ELSE 0)
  ELSE (IF x.m > 0 THEN 1 ELSE IF x.m < 0 THEN -1 ELSE 0)

FAbs(x) == IF FSign(x) < 0 THEN FNeg(x) ELSE x

\* x * y when one of them is zero, infinite or a NaN
MulSpecial(x, y) ==
  IF IsSpecial(x) \/ IsSpecial(y)
  THEN IF IsNaN(x) \/ IsNaN(y) \/ FSign(x) = 0 \/ FSign(y) = 0 THEN NaN
       ELSE IF FSign(x) * FSign(y) > 0 THEN PosInf ELSE NegInf
  ELSE Zero

\* x * y
FMul(x, y) ==
  IF x.m = 0 \/ y.m = 0 THEN MulSpecial(x, y) ELSE Norm(x.m * y.m, x.e + y.e)

\* the sum of two finite non-zero numbers, hi the one of the larger exponent:
\* hi is aligned MANT_BITS bits up, lo below it, bits shifted out of lo are
\* kept as a sticky bit
Sticky(t, lost) == IF lost /\ t % 2 = 0 THEN t + 1 ELSE t

\* a * 2^(MANT_BITS - d), d >= 0, the bits below the unit kept as a sticky bit
Shifted(a, d) ==
  IF d <= MANT_BITS THEN a * Pow2[MANT_BITS - d]
  ELSE IF d - MANT_BITS > MANT_BITS THEN Sticky(0, TRUE)
  ELSE Sticky(a \div Pow2[d - MANT_BITS], a % Pow2[d - MANT_BITS] # 0)

AddAligned(hi, lo) ==
  Norm(hi.m * Pow2[MANT_BITS] + Sgn(lo.m) * Shifted(Abs(lo.m), hi.e - lo.e),
       hi.e - MANT_BITS)

\* x + y when one of them is zero, infinite or a NaN
AddSpecial(x, y) ==
  IF IsSpecial(x) \/ IsSpecial(y)
  THEN IF IsNaN(x) \/ IsNaN(y) THEN NaN
       ELSE IF IsInf(x) /\ IsInf(y) THEN (IF x = y THEN x ELSE NaN)
       ELSE IF IsInf(x) THEN x ELSE y
  ELSE IF x.m = 0 THEN y ELSE x

\* x + y
FAdd(x, y) ==
  IF x.m = 0 \/ y.m = 0 THEN AddSpecial(x, y)
  ELSE IF x.e >= y.e THEN AddAligned(x, y) ELSE AddAligned(y, x)

FSub(x, y) == FAdd(x, FNeg(y))

\* x / y when one of them is zero, infinite or a NaN
DivSpecial(x, y) ==
  IF IsSpecial(x) \/ IsSpecial(y)
  THEN IF IsNaN(x) \/ IsNaN(y) \/ (IsInf(x) /\ IsInf(y)) THEN NaN
       ELSE IF IsInf(x) THEN (IF FSign(x) * (IF y.m < 0 THEN -1 ELSE 1) > 0 THEN PosInf ELSE NegInf)
       ELSE Zero
  ELSE IF y.m = 0
       THEN (IF x.m = 0 THEN NaN ELSE IF x.m > 0 THEN PosInf ELSE NegInf)
  ELSE Zero

\* x / y
FDiv(x, y) ==
  IF x.m = 0 \/ y.m = 0 THEN DivSpecial(x, y)
  ELSE Norm(Sgn(x.m) * Sgn(y.m)
              * (2 * ((Abs(x.m) * Pow2[MANT_BITS + 1]) \div Abs(y.m))
                   + (IF (Abs(x.m) * Pow2[MANT_BITS + 1]) % Abs(y.m) # 0 THEN 1 ELSE 0)),
            x.e - y.e - MANT_BITS - 2)

\* x < y, false when either is a NaN
FLt(x, y) ==
  IF IsNaN(x) \/ IsNaN(y) THEN FALSE
  ELSE IF x = y THEN FALSE
  ELSE IF IsSpecial(x) \/ IsSpecial(y)
       THEN x = NegInf \/ y = PosInf
  ELSE FSub(x, y).m < 0

FLe(x, y) == ~IsNaN(x) /\ ~IsNaN(y) /\ (x = y \/ FLt(x, y))
FGt(x, y) == FLt(y, x)
FGe(x, y) == FLe(y, x)

\* t * t <= n, without the product (which may pass 2^31)
SquareFits(t, n) == t = 0 \/ t <= n \div t

\* the largest s with s*s <= n, n < 2^31: its high byte, then its low byte
ISqrtLow(n, hi) ==
  CHOOSE s \in hi..(hi + 255) : SquareFits(s, n) /\ ~SquareFits(s + 1, n)

ISqrt(n) ==
  ISqrtLow(n, 256 * (CHOOSE a \in 0..255 :
                       SquareFits(256 * a, n) /\ ~SquareFits(256 * (a + 1), n)))

\* the root of n * 2^e from s, the integer root of n: two more bits, a guard
\* bit and a sticky bit, tell how the root rounds
SqrtRounded(n, s, e) ==
  Norm(4 * s + (IF n - s * s > s THEN 3 ELSE IF n # s * s THEN 1 ELSE 0), e)

\* the root of x = n * 2^(x.e - k) for n = x.m * 2^k, x.e - k even
SqrtShifted(x, k) == SqrtRounded(x.m * Pow2[k], ISqrt(x.m * Pow2[k]), ((x.e - k) \div 2) - 2)

\* std::sqrt
FSqrt(x) ==
  IF x.m <= 0
  THEN (IF x = PosInf \/ x = Zero THEN x ELSE NaN)
  ELSE SqrtShifted(x, IF (x.e - MANT_BITS) % 2 = 0 THEN MANT_BITS ELSE MANT_BITS + 1)

\* a decimal literal n/d of the source, rounded as the compiler rounds it
FDec(n, d) == FDiv(FromInt(n), FromInt(d))

One == FromInt(1)
Two == FromInt(2)

\* the integer nearest to a finite x (ties away from zero), |x| < 2^30
FRoundInt(x) ==
  IF x.m = 0 THEN 0
  ELSE IF x.e >= 0 THEN x.m * Pow2[x.e]
  ELSE IF -x.e > MANT_BITS + 1 THEN 0
  ELSE Sgn(x.m) * ((Abs(x.m) + Pow2[-x.e - 1]) \div Pow2[-x.e])

\* turtlelib::PI, 3.14159265358979323846 (here pi * 2^28, rounded)
PI == Norm(843314857, -28)
HalfPI == FDiv(PI, Two)
TwoPI == FMul(Two, PI)

\* c0 - u*(c1 - u*(c2 - ...)) for the coefficients 1/d of ds, from the
\* innermost term outwards: acc is the value of the terms after the i-th
\* (the test acc = acc has TLC compute it before it descends)
RECURSIVE AltFrom(_, _, _, _)
AltFrom(u, ds, i, acc) ==
  IF i = 0 THEN acc
  ELSE IF acc = acc
       THEN AltFrom(u, ds, i - 1, FSub(FDiv(One, FromInt(ds[i])), FMul(u, acc)))
       ELSE acc

AltSeries(u, ds) == IF u = u THEN AltFrom(u, ds, Len(ds), Zero) ELSE u

\* sin and cos of r, |r| <= pi/4, by their power series
SinSeries(r) == FMul(r, AltSeries(FMul(r, r), <<1, 6, 120, 5040, 362880>>))
CosSeries(r) == AltSeries(FMul(r, r), <<1, 2, 24, 720, 40320>>)

\* the quadrant k and the remainder r of x = k * pi/2 + r, |r| <= pi/4
Quadrant(x) == FRoundInt(FDiv(x, HalfPI))
Remainder(x, k) == FSub(x, FMul(FromInt(k), HalfPI))

\* sin(k * pi/2 + r)
SinAt(k, r) ==
  IF k % 2 = 0
  THEN (IF k % 4 = 0 THEN SinSeries(r) ELSE FNeg(SinSeries(r)))
  ELSE (IF k % 4 = 1 THEN CosSeries(r) ELSE FNeg(CosSeries(r)))

\* std::sin
FSin(x) == IF IsSpecial(x) THEN NaN ELSE SinAt(Quadrant(x), Remainder(x, Quadrant(x)))

\* std::cos: the sine a quarter turn on
FCos(x) == IF IsSpecial(x) THEN NaN ELSE SinAt(Quadrant(x) + 1, Remainder(x, Quadrant(x)))

\* the tangent of half the angle whose tangent is t
HalfTan(t) == FDiv(t, FAdd(One, FSqrt(FAdd(One, FMul(t, t)))))

\* the arc tangent of t, 0 <= t <= 1: the series at a quarter of the angle
AtanSeries(u) ==
  IF u = u THEN FMul(FromInt(4), FMul(u, AltSeries(FMul(u, u), <<1, 3, 5, 7, 9>>))) ELSE u
AtanUnit(t) == AtanSeries(HalfTan(HalfTan(t)))

\* the angle of (b, a) in the first quadrant, a > 0 and b > 0
AtanFirst(a, b) ==
  IF FLe(a, b) THEN AtanUnit(FDiv(a, b)) ELSE FSub(HalfPI, AtanUnit(FDiv(b, a)))

\* the angle of (x, y) from t, the angle of (|x|, |y|)
AtanQuadrant(y, x, t) ==
  IF y.m < 0 THEN (IF x.m < 0 THEN FNeg(FSub(PI, t)) ELSE FNeg(t))
  ELSE (IF x.m < 0 THEN FSub(PI, t) ELSE t)

\* std::atan2 of finite arguments or NaN (the model has no signed zero:
\* atan2(0, x) is 0 for x >= 0 and pi for x < 0)
FAtan2(y, x) ==
  IF IsSpecial(y) \/ IsSpecial(x) THEN NaN
  ELSE IF y.m = 0 THEN (IF x.m >= 0 THEN Zero ELSE PI)
  ELSE IF x.m = 0 THEN (IF y.m > 0 THEN HalfPI ELSE FNeg(HalfPI))
  ELSE Let(AtanFirst(FAbs(y), FAbs(x)), LAMBDA t : AtanQuadrant(y, x, t))

\* std::pow(x, 2)
FSquare(x) == FMul(x, x)

\* turtlelib::almost_equal(d1, d2, epsilon = 1.0e-12)
EPSILON == FDiv(FDec(1, 1000000), FromInt(1000000))
almost_equal(d1, d2) == FLt(FAbs(FSub(d1, d2)), EPSILON)

\* normalize_angle's step had it the half-open range (-PI, PI]: -PI itself
\* is brought up by a turn
NormalizeStepHalfOpen(rad) ==
  IF FGt(rad, PI) THEN FSub(rad, TwoPI)
  ELSE IF FLe(rad, FNeg(PI)) THEN FAdd(rad, TwoPI)
  ELSE rad

\* turtlelib::normalize_angle: an angle above PI is brought down and an angle
\* below -PI is brought up by whole turns; PI and -PI are both left alone
NormalizeStep(rad) ==
  IF FGt(rad, PI) THEN FSub(rad, TwoPI)
  ELSE IF FLt(rad, FNeg(PI)) THEN FAdd(rad, TwoPI)
  ELSE rad

RECURSIVE normalize_angle(_)
normalize_angle(rad) ==
  IF IsSpecial(rad) \/ NormalizeStep(rad) = rad THEN rad
  ELSE normalize_angle(NormalizeStep(rad))

\* turtlelib::deg2rad and rad2deg
deg2rad(deg) == FDiv(FMul(deg, PI), FromInt(180))
rad2deg(rad) == FDiv(FMul(rad, FromInt(180)), PI)

\* ------------------------------------------------------------------------
\* turtlelib: Vector2D, Point2D, Twist2D and Transform2D (se2d.cpp)
\* ------------------------------------------------------------------------

Vector2D(x, y) == [x |-> x, y |-> y]
Twist2D(omega, x, y) == [omega |-> omega, x |-> x, y |-> y]

\* the four constructors; a Transform2D is its two members trans2d and rot2d
Transform2D_identity == [trans2d |-> Vector2D(Zero, Zero), rot2d |-> Zero]
Transform2D_trans(trans) == [trans2d |-> trans, rot2d |-> Zero]
Transform2D_rot(radians) == [trans2d |-> Vector2D(Zero, Zero), rot2d |-> radians]
Transform2D(trans, radians) == [trans2d |-> trans, rot2d |-> radians]

\* Transform2D::operator()(Point2D)
ApplyPoint(T, p) == [x |-> FAdd(T.trans2d.x, p.x), y |-> FAdd(T.trans2d.y, p.y)]

\* Transform2D::operator()(Vector2D)
ApplyVector(T, v) ==
  [x |-> FAdd(FSub(FMul(v.x, FCos(T.rot2d)), FMul(v.y, FSin(T.rot2d))), T.trans2d.x),
   y |-> FAdd(FAdd(FMul(v.x, FSin(T.rot2d)), FMul(v.y, FCos(T.rot2d))), T.trans2d.y)]

\* Transform2D::operator()(Twist2D)
ApplyTwist(T, v) ==
  [omega |-> v.omega,
   x |-> FSub(FAdd(FMul(v.omega, T.trans2d.y), FMul(v.x, FCos(T.rot2d))),
              FMul(v.y, FSin(T.rot2d))),
   y |-> FAdd(FAdd(FMul(FNeg(v.omega), T.trans2d.x), FMul(v.x, FSin(T.rot2d))),
              FMul(v.y, FCos(T.rot2d)))]

\* Transform2D::inv
inv(T) ==
  [trans2d |->
     [x |-> FSub(FMul(FNeg(T.trans2d.x), FCos(T.rot2d)), FMul(T.trans2d.y, FSin(T.rot2d))),
      y |-> FAdd(FMul(FNeg(T.trans2d.y), FCos(T.rot2d)), FMul(T.trans2d.x, FSin(T.rot2d)))],
   rot2d |-> FNeg(T.rot2d)]

\* Transform2D::operator*=, for rhs an object other than *this: rot2d is
\* assigned first and the two translation lines read the new rot2d
MulRotated(lhs, rhs, rot2d) ==
  [rot2d |-> rot2d,
   trans2d |->
     [x |-> FAdd(FSub(FMul(rhs.trans2d.x, FCos(rot2d)), FMul(rhs.trans2d.y, FSin(rot2d))),
                 lhs.trans2d.x),
      y |-> FAdd(FAdd(FMul(rhs.trans2d.x, FSin(rot2d)), FMul(rhs.trans2d.y, FCos(rot2d))),
                 lhs.trans2d.y)]]

MulAssign(lhs, rhs) ==
  Let(FAdd(lhs.rot2d, rhs.rot2d), LAMBDA rot2d : MulRotated(lhs, rhs, rot2d))

\* operator*(Transform2D lhs, const Transform2D & rhs)
Mul(lhs, rhs) == MulAssign(lhs, rhs)

\* Transform2D::translation and Transform2D::rotation
translation(T) == [x |-> T.trans2d.x, y |-> T.trans2d.y]
rotation(T) == T.rot2d

\* ------------------------------------------------------------------------
\* turtlelib::DiffDrive (diff_drive.cpp is not among the sources; modelled
\* from its description: section 4.2 of the specification)
\* ------------------------------------------------------------------------

WheelConfig(left, right) == [left |-> left, right |-> right]

\* the node parameters wheel_radius and track_width (set by the launch
\* configuration; the values of the specification's scenario)
wheel_radius == FDec(1, 10)
track_width == One

\* DiffDrive{r_track, r_wheel, wheel_config, robot_config}
DiffDrive(r_track, r_wheel, wheel_config, robot_config) ==
  [r_track |-> r_track, r_wheel |-> r_wheel,
   wheel_config |-> wheel_config, robot_config |-> robot_config]

\* DiffDrive::wheel_twist(a, b): the body twist of the wheel displacement
\* a - b under rolling without slipping
wheel_twist(dd, a, b) ==
  LET dl == FSub(a.left, b.left)
      dr == FSub(a.right, b.right)
  IN Twist2D(FDiv(FMul(dd.r_wheel, FSub(dr, dl)), FMul(Two, dd.r_track)),
             FDiv(FMul(dd.r_wheel, FAdd(dl, dr)), Two),
             Zero)

\* DiffDrive::robot_body_twist(new_wheel_config): the twist from the stored
\* wheel configuration to the new one; nothing is stored
robot_body_twist(dd, new_wheel_config) ==
  wheel_twist(dd, new_wheel_config, dd.wheel_config)

\* the pose a twist carries a pose to: a straight line when the angular
\* rate is almost zero, an arc otherwise
integrate_pose(T, twist) ==
  IF almost_equal(twist.omega, Zero)
  THEN Transform2D(Vector2D(FAdd(T.trans2d.x, FMul(twist.x, FCos(T.rot2d))),
                            FAdd(T.trans2d.y, FMul(twist.x, FSin(T.rot2d)))),
                   T.rot2d)
  ELSE Transform2D(
         Vector2D(FAdd(T.trans2d.x,
                       FMul(FDiv(twist.x, twist.omega),
                            FSub(FSin(FAdd(T.rot2d, twist.omega)), FSin(T.rot2d)))),
                  FAdd(T.trans2d.y,
                       FMul(FDiv(twist.x, twist.omega),
                            FAdd(FNeg(FCos(FAdd(T.rot2d, twist.omega))), FCos(T.rot2d))))),
         FAdd(T.rot2d, twist.omega))

\* DiffDrive::forward_kinematics(new_wheel_config): the model after the call
\* (the call returns its robot_config)
forward_kinematics(dd, new_wheel_config) ==
  [dd EXCEPT !.robot_config = integrate_pose(@, robot_body_twist(dd, new_wheel_config)),
             !.wheel_config = new_wheel_config]

\* DiffDrive::set_robot_config
set_robot_config(dd, T) == [dd EXCEPT !.robot_config = T]

\* ------------------------------------------------------------------------
\* Vectors and matrices (arma::vec, arma::mat), stored flat: the entry (i, j)
\* of a matrix of c columns is M[i * c + j]
\* ------------------------------------------------------------------------

\* the number of landmarks the state has room for
MAX_OBSTACLES == 2
STATE_SIZE == MAX_OBSTACLES * 2 + 3

Idx == 0..(STATE_SIZE - 1)
Idx2 == 0..(STATE_SIZE * STATE_SIZE - 1)

\* A * B for A of ar x ac and B of ac x bc: the entry (i, j) is the sum over
\* l of A(i, l) * B(l, j), added in the order of l (the tests A = A, B = B
\* and sum = sum have TLC compute the operands and the partial sum before it
\* descends)
MatMul(A, ar, ac, B, bc) ==
  IF A = A /\ B = B
  THEN Tab([k \in 0..(ar * bc - 1) |->
              LET i == (k \div bc) * ac
                  j == k % bc
                  RECURSIVE Dot(_, _)
                  Dot(l, acc) ==
                    IF l = ac THEN acc
                    ELSE LET sum == FAdd(acc, FMul(A[i + l], B[l * bc + j]))
                         IN IF sum = sum THEN Dot(l + 1, sum) ELSE sum
              IN Dot(1, FMul(A[i], B[j]))])
  ELSE A

\* A.t() for A of ar x ac
Transpose(A, ar, ac) == Tab([k \in 0..(ar * ac - 1) |-> A[(k % ar) * ac + (k \div ar)]])

MatAdd(A, B) == IF A = A /\ B = B THEN Tab([k \in DOMAIN A |-> FAdd(A[k], B[k])]) ELSE A
MatSub(A, B) == IF A = A /\ B = B THEN Tab([k \in DOMAIN A |-> FSub(A[k], B[k])]) ELSE A

\* arma::eye(n, n) and a matrix of zeros
Eye(n) == [k \in 0..(n * n - 1) |-> IF k \div n = k % n THEN One ELSE Zero]
Zeros(n) == [k \in 0..(n - 1) |-> Zero]

\* A.i() for a 2 x 2 matrix: the adjugate over the determinant; an exactly
\* singular matrix makes arma throw (ok is then FALSE)
Adjugate(A, det) ==
  [ok |-> ~(IsFinite(det) /\ det.m = 0),
   inv |-> Tab([k \in 0..3 |->
             IF k = 0 THEN FDiv(A[3], det)
             ELSE IF k = 1 THEN FDiv(FNeg(A[1]), det)
             ELSE IF k = 2 THEN FDiv(FNeg(A[2]), det)
             ELSE FDiv(A[0], det)])]

Inv2(A) == Adjugate(A, FSub(FMul(A[0], A[3]), FMul(A[1], A[2])))

\* ------------------------------------------------------------------------
\* The EKF of the SLAM node
\* ------------------------------------------------------------------------

\* covar after construction: zero but for 1e9 on the landmarks' diagonal
LARGE_COVAR == FromInt(1000000000)
InitCovar ==
  [k \in Idx2 |-> IF k \div STATE_SIZE = k % STATE_SIZE /\ k \div STATE_SIZE >= 3
                  THEN LARGE_COVAR ELSE Zero]

\* Q_bar: 0.1 on the three diagonal entries of the robot's pose
Q_bar ==
  [k \in Idx2 |-> IF k \div STATE_SIZE = k % STATE_SIZE /\ k \div STATE_SIZE < 3
                  THEN FDec(1, 10) ELSE Zero]

\* v_t, the "sensor noise" added to every measurement, and R
v_t == [k \in 0..1 |-> FDec(1, 10)]
R == [k \in 0..3 |-> IF k = 0 \/ k = 3 THEN FDec(1, 10) ELSE Zero]

\* the state after the mean update of EKF_Slam_predict: state(1), then
\* state(2), then (when the twist turns) state(0); the heading is not
\* written before the two positions are, so both read the old heading
PredictMean(state, twist) ==
  IF almost_equal(twist.omega, Zero)
  THEN [state EXCEPT ![1] = FAdd(@, FMul(twist.x, FCos(state[0]))),
                     ![2] = FAdd(@, FMul(twist.x, FSin(state[0])))]
  ELSE [state EXCEPT
          ![1] = FAdd(@, FMul(FDiv(twist.x, twist.omega),
                              FSub(FSin(FAdd(state[0], twist.omega)), FSin(state[0])))),
          ![2] = FAdd(@, FMul(FDiv(twist.x, twist.omega),
                              FAdd(FNeg(FCos(FAdd(state[0], twist.omega))), FCos(state[0])))),
          ![0] = FAdd(@, twist.omega)]

\* A_t, built from the state the mean update has left
PredictJacobian(state, twist) ==
  LET a10 == IF almost_equal(twist.omega, Zero)
             THEN FMul(FNeg(twist.x), FSin(state[0]))
             ELSE FMul(FDiv(twist.x, twist.omega),
                       FSub(FCos(FAdd(state[0], twist.omega)), FCos(state[0])))
      a20 == IF almost_equal(twist.omega, Zero)
             THEN FMul(twist.x, FCos(state[0]))
             ELSE FMul(FDiv(twist.x, twist.omega),
                       FSub(FSin(FAdd(state[0], twist.omega)), FSin(state[0])))
      A_t == [k \in Idx2 |-> IF k = 1 * STATE_SIZE THEN a10
                             ELSE IF k = 2 * STATE_SIZE THEN a20 ELSE Zero]
  IN MatAdd(Eye(STATE_SIZE), A_t)

\* covar = A_t * covar * A_t.t() + Q_bar
PredictCovar(A_t, covar) ==
  MatAdd(MatMul(MatMul(A_t, STATE_SIZE, STATE_SIZE, covar, STATE_SIZE),
                STATE_SIZE, STATE_SIZE, Transpose(A_t, STATE_SIZE, STATE_SIZE), STATE_SIZE),
         Q_bar)

\* the covariance update of EKF_Slam_predict, for s the state its mean
\* update has left
PredictFrom(s, covar, twist) ==
  [state |-> s, covar |-> PredictCovar(PredictJacobian(s, twist), covar)]

\* EKF_Slam_predict: the new state and covariance
EKF_Slam_predict(state, covar, twist) == PredictFrom(PredictMean(state, twist), covar, twist)

\* the measurement z of EKF_Slam_update: range and bearing of the marker,
\* plus v_t
RangeBearing(r, phi) ==
  [r |-> r, phi |-> phi,
   z |-> [k \in 0..1 |-> IF k = 0 THEN FAdd(r, v_t[0]) ELSE FAdd(phi, v_t[1])]]

Measurement(marker_x, marker_y) ==
  RangeBearing(FSqrt(FAdd(FSquare(marker_x), FSquare(marker_y))),
               FAtan2(marker_y, marker_x))

\* the test of the marker's slot had it left out: every call takes the
\* initialisation branch
UnseenAlways(state, marker_id) == TRUE

\* the test "the marker is not in the state yet"
Unseen(state, marker_id) ==
  state[marker_id * 2 + 3] = Zero /\ state[marker_id * 2 + 3 + 1] = Zero

\* the point a range and bearing project to from the robot pose of state
Projection(state, r, phi) ==
  [x |-> FAdd(state[1], FMul(r, FCos(FAdd(phi, state[0])))),
   y |-> FAdd(state[2], FMul(r, FSin(FAdd(phi, state[0]))))]

\* the state after the initialisation branch of EKF_Slam_update
InitLandmark(state, r, phi, marker_id) ==
  IF Unseen(state, marker_id)
  THEN [state EXCEPT
          ![marker_id * 2 + 3] = FAdd(state[1], FMul(r, FCos(FAdd(phi, state[0])))),
          ![marker_id * 2 + 3 + 1] = FAdd(state[2], FMul(r, FSin(FAdd(phi, state[0]))))]
  ELSE state

\* the expected measurement z_hat, the displacement to the landmark and the
\* squared distance d, from the state the initialisation branch has left
ExpectedAt(delta_x, delta_y, d, theta) ==
  [delta_x |-> delta_x, delta_y |-> delta_y, d |-> d,
   z_hat |-> [k \in 0..1 |->
                IF k = 0 THEN FSqrt(d)
                ELSE Let(FAtan2(delta_y, delta_x),
                         LAMBDA bearing : normalize_angle(FSub(bearing, theta)))]]

ExpectedFrom(delta_x, delta_y, theta) ==
  ExpectedAt(delta_x, delta_y, FAdd(FSquare(delta_x), FSquare(delta_y)), theta)

Expected(state, marker_id) ==
  ExpectedFrom(FSub(state[marker_id * 2 + 3], state[1]),
               FSub(state[marker_id * 2 + 3 + 1], state[2]), state[0])

\* the measurement Jacobian H, 2 x STATE_SIZE
JacobianAt(delta_x, delta_y, d, sd, lm) ==
  Tab([k \in 0..(2 * STATE_SIZE - 1) |->
       IF k \div STATE_SIZE = 0
       THEN (IF k % STATE_SIZE = 1 THEN FDiv(FNeg(delta_x), sd)
             ELSE IF k % STATE_SIZE = 2 THEN FDiv(FNeg(delta_y), sd)
             ELSE IF k % STATE_SIZE = lm THEN FDiv(delta_x, sd)
             ELSE IF k % STATE_SIZE = lm + 1 THEN FDiv(delta_y, sd)
             ELSE Zero)
       ELSE (IF k % STATE_SIZE = 0 THEN FNeg(One)
             ELSE IF k % STATE_SIZE = 1 THEN FDiv(delta_y, d)
             ELSE IF k % STATE_SIZE = 2 THEN FDiv(FNeg(delta_x), d)
             ELSE IF k % STATE_SIZE = lm THEN FDiv(FNeg(delta_y), d)
             ELSE IF k % STATE_SIZE = lm + 1 THEN FDiv(delta_x, d)
             ELSE Zero)])

Jacobian(delta_x, delta_y, d, marker_id) ==
  JacobianAt(delta_x, delta_y, d, FSqrt(d), marker_id * 2 + 3)

\* H * covar * H.t() + R
Innovation_covar(H, covar) ==
  MatAdd(MatMul(MatMul(H, 2, STATE_SIZE, covar, STATE_SIZE), 2, STATE_SIZE,
                Transpose(H, 2, STATE_SIZE), 2),
         R)

\* the last two statements of EKF_Slam_update, for the gain K:
\* state = state + K * (z - z_hat) and covar = (I - K * H) * covar
UpdateWith(s0, covar, H, K, innov) ==
  [state |-> MatAdd(s0, MatMul(K, STATE_SIZE, 2, innov, 1)),
   covar |-> MatMul(MatSub(Eye(STATE_SIZE), MatMul(K, STATE_SIZE, 2, H, STATE_SIZE)),
                    STATE_SIZE, STATE_SIZE, covar, STATE_SIZE),
   thrown |-> FALSE]

\* K = covar * H.t() * (H * covar * H.t() + R).i(), Si the inverse; when the
\* inversion throws the state keeps what the initialisation branch wrote and
\* the covariance is untouched
UpdateGain(s0, covar, H, Si, innov) ==
  IF ~Si.ok THEN [state |-> s0, covar |-> covar, thrown |-> TRUE]
  ELSE Let(MatMul(MatMul(covar, STATE_SIZE, STATE_SIZE, Transpose(H, 2, STATE_SIZE), 2),
                  STATE_SIZE, 2, Si.inv, 2),
           LAMBDA K : UpdateWith(s0, covar, H, K, innov))

UpdateJacobian(s0, covar, H, innov) ==
  Let(Inv2(Innovation_covar(H, covar)), LAMBDA Si : UpdateGain(s0, covar, H, Si, innov))

\* z - z_hat
Innovation(z, z_hat) == [k \in 0..1 |-> FSub(z[k], z_hat[k])]

\* what a call of EKF_Slam_update computed on its way
Report(state, marker_id, meas, d, innov) ==
  [id |-> marker_id, fresh |-> Unseen(state, marker_id),
   proj |-> Projection(state, meas.r, meas.phi), d |-> d, innov |-> innov]

\* EKF_Slam_update from the expected measurement on, for s0 the state the
\* initialisation branch has left
UpdateExpected(state, covar, marker_id, meas, s0, ex, innov) ==
  [res |-> Let(Jacobian(ex.delta_x, ex.delta_y, ex.d, marker_id),
               LAMBDA H : UpdateJacobian(s0, covar, H, innov)),
   report |-> Report(state, marker_id, meas, ex.d, innov)]

UpdateInitialised(state, covar, marker_id, meas, s0, ex) ==
  Let(Innovation(meas.z, ex.z_hat),
      LAMBDA innov : UpdateExpected(state, covar, marker_id, meas, s0, ex, innov))

UpdateMeasured(state, covar, marker_id, meas, s0) ==
  Let(Expected(s0, marker_id),
      LAMBDA ex : UpdateInitialised(state, covar, marker_id, meas, s0, ex))

\* EKF_Slam_update from the initialisation branch on, for the measurement
UpdateFromMeasurement(state, covar, marker_id, meas) ==
  Let(InitLandmark(state, meas.r, meas.phi, marker_id),
      LAMBDA s0 : UpdateMeasured(state, covar, marker_id, meas, s0))

\* EKF_Slam_update: res is the state and covariance on return and whether
\* the call threw, report what it computed on its way
EKF_Slam_update(state, covar, marker_x, marker_y, marker_id) ==
  Let(Measurement(marker_x, marker_y),
      LAMBDA meas : UpdateFromMeasurement(state, covar, marker_id, meas))

\* ------------------------------------------------------------------------
\* The SLAM node (class Slam): its members, and the callbacks the executor
\* runs one at a time
\* ------------------------------------------------------------------------

\* how many callbacks a run delivers, and how many markers its MarkerArrays
\* hold in all
MaxCallbacks == 3
MaxMarkers == 2

VARIABLES
  nuturtle,            \* nuturtle_, the DiffDrive model
  prev_wheel_config,   \* the wheel configuration of the previous prediction
  state,               \* the EKF state: heading, x, y, then x, y per landmark
  covar,               \* the EKF covariance
  odom_msg,            \* the odometry message last published
  map_tf,              \* the map transform last broadcast
  pc,                  \* "idle", "sensor" (inside fake_sensor_callback) or "crashed"
  msg,                 \* the MarkerArray of the running fake_sensor_callback
  mi,                  \* the loop index i of fake_sensor_callback, from 1
  calls,               \* history: callbacks started
  delivered,           \* history: markers delivered
  pending,             \* history: wheel samples consumed since the last predict
  covered,             \* history: the value of pending when predict last ran
  nPredict,            \* history: calls of EKF_Slam_predict
  nSensor,             \* history: fake_sensor_callbacks started
  lastTwist,           \* history: the twist handed to the last predict
  sensorWc,            \* history: the wheel configuration read by the last two
                       \* fake_sensor_callbacks, <<previous, last>>
  sampleTwist,         \* history: the twist of the displacement from the stored
                       \* wheel configuration to the last sample, taken on arrival
  predicted,           \* history: state and covar as the last predict left them
  updLog,              \* history: the EKF_Slam_update calls of the running
                       \* (or last) fake_sensor_callback
  nUpdates,            \* history: per landmark id, the calls of EKF_Slam_update
  initAt,              \* history: per landmark id, which of its calls (the
                       \* first, the second, ...) took the initialisation branch
  jacobian,            \* history: the heading the last predict started from and
                       \* the A_t it built
  handed               \* history: per wheel, the sum of the displacements handed
                       \* to wheel_twist for the predictions so far

\* the variables of the Transform2D scenario and of the normalize_angle
\* scenario (declared here; their actions follow the node's)
VARIABLES
  tf,                  \* a Transform2D object
  rhs,                 \* a second Transform2D object
  tw,                  \* a Twist2D object
  last,                \* history: the last operation, its operands and results
  nOps,                \* history: operations that wrote tf or rhs
  rad,                 \* the angle handed to normalize_angle
  once,                \* normalize_angle(rad)
  twice,               \* normalize_angle(normalize_angle(rad))
  angPc                \* "input", "once" or "twice"

seVars == <<tf, rhs, tw, last, nOps>>
angVars == <<rad, once, twice, angPc>>

nodeVars == <<nuturtle, prev_wheel_config, state, covar, odom_msg, map_tf, pc, msg, mi,
              calls, delivered, pending, covered, nPredict, nSensor, lastTwist, sensorWc,
              sampleTwist, predicted, updLog, nUpdates, initAt, jacobian, handed>>

\* the wheel angles a joint_states message may carry: both wheels half a
\* radian on, or the right wheel a radian on
WheelSamples == {WheelConfig(FDec(1, 2), FDec(1, 2)), WheelConfig(FDec(1, 2), One)}

\* the markers a MarkerArray may hold: landmark 0 behind the robot,
\* landmark 1 on the robot, and a marker to delete
Marker(action, id, x, y) == [action |-> action, id |-> id, x |-> x, y |-> y]
MarkerSet ==
  {Marker("ADD", 0, FNeg(One), Zero), Marker("ADD", 1, Zero, Zero),
   Marker("DELETE", 0, One, Zero)}
MarkerArrays == UNION {[1..n -> MarkerSet] : n \in 0..MaxMarkers}

ZeroTwist == Twist2D(Zero, Zero, Zero)

\* the members after the constructor Slam::Slam (x0, y0, theta0 at their
\* default 0.0)
SlamInit ==
  /\ nuturtle = DiffDrive(FDiv(track_width, Two), wheel_radius,
                          WheelConfig(Zero, Zero),
                          Transform2D(Vector2D(Zero, Zero), Zero))
  /\ prev_wheel_config = WheelConfig(Zero, Zero)
  /\ state = Zeros(STATE_SIZE)
  /\ covar = InitCovar
  /\ odom_msg = [twist |-> ZeroTwist, x |-> Zero, y |-> Zero, yaw |-> Zero]
  /\ map_tf = Transform2D_identity
  /\ pc = "idle"
  /\ msg = <<>>
  /\ mi = 1
  /\ calls = 0
  /\ delivered = 0
  /\ pending = 0
  /\ covered = 0
  /\ nPredict = 0
  /\ nSensor = 0
  /\ lastTwist = ZeroTwist
  /\ sensorWc = <<WheelConfig(Zero, Zero), WheelConfig(Zero, Zero)>>
  /\ sampleTwist = ZeroTwist
  /\ predicted = [state |-> Zeros(STATE_SIZE), covar |-> InitCovar]
  /\ updLog = <<>>
  /\ nUpdates = [id \in 0..(MAX_OBSTACLES - 1) |-> 0]
  /\ initAt = [id \in 0..(MAX_OBSTACLES - 1) |-> <<>>]
  /\ jacobian = [theta |-> Zero, A_t |-> Eye(STATE_SIZE)]
  /\ handed = WheelConfig(Zero, Zero)

\* joint_state_callback had it run the prediction itself, once per wheel
\* sample and with the twist of that sample
joint_state_callback_predicting(sample) ==
  /\ pc = "idle"
  /\ calls < MaxCallbacks
  /\ nuturtle' = forward_kinematics(nuturtle, sample)
  /\ odom_msg' = [twist |-> robot_body_twist(nuturtle', sample),
                  x |-> translation(nuturtle'.robot_config).x,
                  y |-> translation(nuturtle'.robot_config).y,
                  yaw |-> rotation(nuturtle'.robot_config)]
  /\ sampleTwist' = robot_body_twist(nuturtle, sample)
  /\ lastTwist' = sampleTwist'
  /\ predicted' = EKF_Slam_predict(state, covar, lastTwist')
  /\ state' = predicted'.state
  /\ covar' = predicted'.covar
  /\ jacobian' = [theta |-> state[0], A_t |-> PredictJacobian(state', lastTwist')]
  /\ nPredict' = nPredict + 1
  /\ covered' = 1
  /\ pending' = 0
  /\ calls' = calls + 1
  /\ UNCHANGED <<prev_wheel_config, map_tf, pc, msg, mi, delivered, nSensor, sensorWc,
                 updLog, nUpdates, initAt, handed>>
  /\ UNCHANGED <<seVars, angVars>>

\* Slam::joint_state_callback for a message carrying the wheel angles
\* sample: forward kinematics first, then the twist, asked of the model
\* that forward kinematics has just updated, then the publication
joint_state_callback(sample) ==
  /\ pc = "idle"
  /\ calls < MaxCallbacks
  /\ nuturtle' = forward_kinematics(nuturtle, sample)
  /\ odom_msg' = [twist |-> robot_body_twist(nuturtle', sample),
                  x |-> translation(nuturtle'.robot_config).x,
                  y |-> translation(nuturtle'.robot_config).y,
                  yaw |-> rotation(nuturtle'.robot_config)]
  /\ sampleTwist' = robot_body_twist(nuturtle, sample)
  /\ pending' = pending + 1
  /\ calls' = calls + 1
  /\ UNCHANGED <<prev_wheel_config, state, covar, map_tf, pc, msg, mi, delivered, covered,
                 nPredict, nSensor, lastTwist, sensorWc, predicted, updLog, nUpdates, initAt,
                 jacobian, handed>>
  /\ UNCHANGED <<seVars, angVars>>

\* fake_sensor_callback had it no assignment to prev_wheel_config: every
\* prediction takes the displacement from the initial wheel configuration
fake_sensor_begin_prev_kept ==
  /\ pc = "idle"
  /\ calls < MaxCallbacks
  /\ lastTwist' = wheel_twist(nuturtle, nuturtle.wheel_config, prev_wheel_config)
  /\ prev_wheel_config' = prev_wheel_config
  /\ handed' = WheelConfig(FAdd(handed.left, FSub(nuturtle.wheel_config.left,
                                                     prev_wheel_config.left)),
                           FAdd(handed.right, FSub(nuturtle.wheel_config.right,
                                                      prev_wheel_config.right)))
  /\ predicted' = EKF_Slam_predict(state, covar, lastTwist')
  /\ state' = predicted'.state
  /\ covar' = predicted'.covar
  /\ jacobian' = [theta |-> state[0], A_t |-> PredictJacobian(state', lastTwist')]
  /\ sensorWc' = <<sensorWc[2], nuturtle.wheel_config>>
  /\ \E m \in MarkerArrays :
        /\ delivered + Len(m) <= MaxMarkers
        /\ delivered' = delivered + Len(m)
        /\ msg' = m
  /\ pc' = "sensor"
  /\ mi' = 1
  /\ updLog' = <<>>
  /\ covered' = pending
  /\ pending' = 0
  /\ nPredict' = nPredict + 1
  /\ nSensor' = nSensor + 1
  /\ calls' = calls + 1
  /\ UNCHANGED <<nuturtle, odom_msg, map_tf, sampleTwist, nUpdates, initAt>>
  /\ UNCHANGED <<seVars, angVars>>

\* Slam::fake_sensor_callback, up to its loop, for one of the MarkerArrays
\* that may arrive: the twist of the wheel displacement since the previous
\* call, and the prediction with it
fake_sensor_begin ==
  /\ pc = "idle"
  /\ calls < MaxCallbacks
  /\ lastTwist' = wheel_twist(nuturtle, nuturtle.wheel_config, prev_wheel_config)
  /\ prev_wheel_config' = nuturtle.wheel_config
  /\ handed' = WheelConfig(FAdd(handed.left, FSub(nuturtle.wheel_config.left,
                                                     prev_wheel_config.left)),
                           FAdd(handed.right, FSub(nuturtle.wheel_config.right,
                                                      prev_wheel_config.right)))
  /\ predicted' = EKF_Slam_predict(state, covar, lastTwist')
  /\ state' = predicted'.state
  /\ covar' = predicted'.covar
  /\ jacobian' = [theta |-> state[0], A_t |-> PredictJacobian(state', lastTwist')]
  /\ sensorWc' = <<sensorWc[2], nuturtle.wheel_config>>
  /\ \E m \in MarkerArrays :
        /\ delivered + Len(m) <= MaxMarkers
        /\ delivered' = delivered + Len(m)
        /\ msg' = m
  /\ pc' = "sensor"
  /\ mi' = 1
  /\ updLog' = <<>>
  /\ covered' = pending
  /\ pending' = 0
  /\ nPredict' = nPredict + 1
  /\ nSensor' = nSensor + 1
  /\ calls' = calls + 1
  /\ UNCHANGED <<nuturtle, odom_msg, map_tf, sampleTwist, nUpdates, initAt>>
  /\ UNCHANGED <<seVars, angVars>>

\* what one call of EKF_Slam_update did, for the history updLog
Entry(i, marker, st, cv, u) ==
  Tab([i |-> i, marker |-> marker, report |-> u.report, thrown |-> u.res.thrown,
       pre |-> [state |-> st, covar |-> cv],
       post |-> [state |-> u.res.state, covar |-> u.res.covar]])

UpdateEntry(i, marker, st, cv) ==
  Entry(i, marker, st, cv, EKF_Slam_update(st, cv, marker.x, marker.y, marker.id))

\* the loop of fake_sensor_callback had it no test of the marker's action:
\* a DELETE marker is handed to EKF_Slam_update like any other
fake_sensor_marker_no_skip ==
  /\ pc = "sensor"
  /\ mi <= Len(msg)
  /\ updLog' = Append(updLog, UpdateEntry(mi, msg[mi], state, covar))
  /\ state' = updLog'[Len(updLog')].post.state
  /\ covar' = updLog'[Len(updLog')].post.covar
  /\ pc' = IF updLog'[Len(updLog')].thrown THEN "crashed" ELSE pc
  /\ nUpdates' = [nUpdates EXCEPT ![msg[mi].id] = @ + 1]
  /\ initAt' = IF updLog'[Len(updLog')].report.fresh
               THEN [initAt EXCEPT ![msg[mi].id] = Append(@, nUpdates'[msg[mi].id])]
               ELSE initAt
  /\ mi' = mi + 1
  /\ UNCHANGED <<nuturtle, prev_wheel_config, odom_msg, map_tf, msg, calls, delivered,
                 pending, covered, nPredict, nSensor, lastTwist, sensorWc, sampleTwist,
                 predicted, jacobian, handed>>
  /\ UNCHANGED <<seVars, angVars>>

\* one turn of the loop of fake_sensor_callback, for the marker msg[mi]; an
\* exception of EKF_Slam_update is not caught and ends the node
fake_sensor_marker ==
  /\ pc = "sensor"
  /\ mi <= Len(msg)
  /\ IF msg[mi].action = "DELETE"
     THEN /\ pc' = pc
          /\ UNCHANGED <<state, covar, updLog, nUpdates, initAt>>
     ELSE /\ updLog' = Append(updLog, UpdateEntry(mi, msg[mi], state, covar))
          /\ state' = updLog'[Len(updLog')].post.state
          /\ covar' = updLog'[Len(updLog')].post.covar
          /\ pc' = IF updLog'[Len(updLog')].thrown THEN "crashed" ELSE pc
          /\ nUpdates' = [nUpdates EXCEPT ![msg[mi].id] = @ + 1]
          /\ initAt' = IF updLog'[Len(updLog')].report.fresh
                       THEN [initAt EXCEPT ![msg[mi].id] = Append(@, nUpdates'[msg[mi].id])]
                       ELSE initAt
  /\ mi' = mi + 1
  /\ UNCHANGED <<nuturtle, prev_wheel_config, odom_msg, map_tf, msg, calls, delivered,
                 pending, covered, nPredict, nSensor, lastTwist, sensorWc, sampleTwist,
                 predicted, jacobian, handed>>
  /\ UNCHANGED <<seVars, angVars>>

\* the end of fake_sensor_callback: map_tf_broadcaster, and the return
fake_sensor_end ==
  /\ pc = "sensor"
  /\ mi > Len(msg)
  /\ map_tf' = Transform2D(Vector2D(state[1], state[2]), state[0])
  /\ pc' = "idle"
  /\ UNCHANGED <<nuturtle, prev_wheel_config, state, covar, odom_msg, msg, mi, calls,
                 delivered, pending, covered, nPredict, nSensor, lastTwist, sensorWc, sampleTwist,
                 predicted, updLog, nUpdates, initAt, jacobian, handed>>
  /\ UNCHANGED <<seVars, angVars>>

\* ------------------------------------------------------------------------
\* Transform2D objects under construction, composition, inversion and
\* parsing (se2d.cpp)
\* ------------------------------------------------------------------------

\* how many operations a run applies to the two objects
MaxSeOps == 2

\* a token of an input text: a number, or a word that is no number
Num(v) == [num |-> TRUE, word |-> "", val |-> v]
Word(w) == [num |-> FALSE, word |-> w, val |-> Zero]

\* a std::istream over the tokens toks
IStream(toks) == [toks |-> toks, pos |-> 1, fail |-> FALSE]

\* is.peek() == 'd' ("deg:" is the one word here that starts with d)
PeekIsD(is) ==
  is.pos <= Len(is.toks) /\ ~is.toks[is.pos].num /\ is.toks[is.pos].word = "deg:"

\* is >> string: the stream after it
ExtractString(is) ==
  IF is.fail \/ is.pos > Len(is.toks) THEN [is EXCEPT !.fail = TRUE]
  ELSE [is EXCEPT !.pos = @ + 1]

\* is >> double into a variable holding old: the stream after it and the
\* variable's value (untouched when the stream has failed or is at its end,
\* where the extraction is not attempted; zero when the token is no number)
ExtractDouble(is, old) ==
  IF is.fail \/ is.pos > Len(is.toks) THEN [is |-> [is EXCEPT !.fail = TRUE], val |-> old]
  ELSE IF ~is.toks[is.pos].num
       THEN [is |-> [is EXCEPT !.fail = TRUE], val |-> Zero]
  ELSE [is |-> [is EXCEPT !.pos = @ + 1], val |-> is.toks[is.pos].val]

\* is.peek() == '['
PeekIsBracket(is) ==
  is.pos <= Len(is.toks) /\ ~is.toks[is.pos].num /\ is.toks[is.pos].word = "["

\* is.get(): one character is taken, a bracket when the next token is one
\* and a separator otherwise; at the end of the input the stream fails
Get(is) ==
  IF is.fail \/ is.pos > Len(is.toks) THEN [is EXCEPT !.fail = TRUE]
  ELSE IF ~is.toks[is.pos].num /\ is.toks[is.pos].word \in {"[", "]"}
       THEN [is EXCEPT !.pos = @ + 1]
  ELSE is

\* operator>>(std::istream &, Twist2D &) into the object old: the three
\* members are extracted into the object itself, one after the other
ParseTwist2D(toks, old) ==
  LET is0 == IStream(toks)
      bracketed == PeekIsBracket(is0)
      omega == ExtractDouble(IF bracketed THEN Get(is0) ELSE is0, old.omega)
      x == ExtractDouble(omega.is, old.x)
      y == ExtractDouble(x.is, old.y)
  IN [tw |-> Twist2D(omega.val, x.val, y.val),
      fail |-> (IF bracketed THEN Get(y.is) ELSE y.is).fail]

\* operator>>(std::istream &, Transform2D &): the value assigned to tf and
\* the stream's fail state
ParseTransform2D(toks) ==
  LET is0 == IStream(toks)
      labelled == PeekIsD(is0)
      r == ExtractDouble(IF labelled THEN ExtractString(is0) ELSE is0, Zero)
      x == ExtractDouble(IF labelled THEN ExtractString(r.is) ELSE r.is, Zero)
      y == ExtractDouble(IF labelled THEN ExtractString(x.is) ELSE x.is, Zero)
  IN [tf |-> Transform2D(Vector2D(x.val, y.val), deg2rad(r.val)), fail |-> y.is.fail]

\* the arguments the scenario constructs transforms from, the texts it
\* parses and the vectors and points it applies transforms to
Translations == {Vector2D(One, Zero)}
Rotations == {HalfPI, PI, FAdd(PI, HalfPI)}
Constructed ==
  {Transform2D_identity}
    \cup {Transform2D_trans(t) : t \in Translations}
    \cup {Transform2D_rot(r) : r \in Rotations}
    \cup {Transform2D(t, r) : t \in Translations, r \in Rotations}
Texts ==
  { <<Num(FromInt(270)), Num(One), Num(Zero)>>,
    <<Word("deg:"), Num(FromInt(90)), Word("x:"), Num(One), Word("y:"), Num(Zero)>>,
    <<Num(FromInt(90)), Word("abc")>>,
    <<>> }
TwistTexts ==
  { <<Word("["), Num(One), Num(Two), Num(FromInt(3)), Word("]")>>,
    <<Num(One), Num(Two), Num(FromInt(3))>>,
    <<Num(FromInt(5)), Word("abc")>>,
    <<Word("["), Num(FromInt(5))>> }
Vectors == {Vector2D(One, Zero), Vector2D(Zero, One)}
Points == {Vector2D(Zero, Zero), Vector2D(One, One)}

NoOp == [op |-> "none", T |-> Transform2D_identity, arg |-> Zero, out |-> Zero, ref |-> Zero]

SeInit ==
  /\ tf = Transform2D_identity
  /\ rhs = Transform2D_identity
  /\ tw = Twist2D(Zero, Zero, Zero)
  /\ last = NoOp
  /\ nOps = 0

\* tf or rhs is assigned a newly constructed transform
SeConstruct(T) ==
  /\ nOps < MaxSeOps
  /\ \/ tf' = T /\ rhs' = rhs
     \/ rhs' = T /\ tf' = tf
  /\ last' = [NoOp EXCEPT !.op = "construct", !.T = T]
  /\ nOps' = nOps + 1
  /\ UNCHANGED <<tw, nodeVars, angVars>>

\* tf *= rhs
SeMulAssign ==
  /\ nOps < MaxSeOps
  /\ tf' = MulAssign(tf, rhs)
  /\ last' = [NoOp EXCEPT !.op = "mul_assign", !.T = tf]
  /\ nOps' = nOps + 1
  /\ UNCHANGED <<rhs, tw, nodeVars, angVars>>

\* tf = tf.inv()
SeInv ==
  /\ nOps < MaxSeOps
  /\ tf' = inv(tf)
  /\ last' = [NoOp EXCEPT !.op = "inv", !.T = tf]
  /\ nOps' = nOps + 1
  /\ UNCHANGED <<rhs, tw, nodeVars, angVars>>

\* is >> tf for a stream over text
SeParse(text) ==
  /\ nOps < MaxSeOps
  /\ tf' = ParseTransform2D(text).tf
  /\ last' = [NoOp EXCEPT !.op = "parse", !.T = tf, !.arg = text,
                          !.out = ParseTransform2D(text).fail]
  /\ nOps' = nOps + 1
  /\ UNCHANGED <<rhs, tw, nodeVars, angVars>>

\* is >> tw for a stream over text
SeParseTwist(text) ==
  /\ nOps < MaxSeOps
  /\ tw' = ParseTwist2D(text, tw).tw
  /\ last' = [NoOp EXCEPT !.op = "parse_twist", !.T = tw, !.arg = text,
                          !.out = ParseTwist2D(text, tw).fail]
  /\ nOps' = nOps + 1
  /\ UNCHANGED <<tf, rhs, nodeVars, angVars>>

\* tf * tf.inv() is computed
SeMulInv ==
  /\ last' = [NoOp EXCEPT !.op = "mul_inv", !.T = tf, !.out = Let(inv(tf), LAMBDA i : Mul(tf, i))]
  /\ UNCHANGED <<tf, rhs, tw, nOps, nodeVars, angVars>>

\* (tf * rhs)(v) is computed, and tf(rhs(v)) next to it
SeApplyComposed(v) ==
  /\ last' = [NoOp EXCEPT !.op = "compose", !.T = tf, !.arg = v,
                          !.out = Let(Mul(tf, rhs), LAMBDA AB : ApplyVector(AB, v)),
                          !.ref = Let(ApplyVector(rhs, v), LAMBDA w : ApplyVector(tf, w))]
  /\ UNCHANGED <<tf, rhs, tw, nOps, nodeVars, angVars>>

\* tf.inv()(tf(p)) is computed
SeRoundTrip(p) ==
  /\ last' = [NoOp EXCEPT !.op = "round_trip", !.T = tf, !.arg = p,
                          !.out = Let(ApplyPoint(tf, p), LAMBDA q : ApplyPoint(inv(tf), q))]
  /\ UNCHANGED <<tf, rhs, tw, nOps, nodeVars, angVars>>

\* ------------------------------------------------------------------------
\* normalize_angle applied to an angle, and again to its result
\* ------------------------------------------------------------------------

\* the angles are k * PI / 4 for |k| up to MaxEighths, and each of them plus
\* a tenth of a radian
MaxEighths == 20

Angles ==
  {FAdd(FMul(FromInt(k), FDiv(PI, FromInt(4))), off) :
     k \in (-MaxEighths)..MaxEighths, off \in {Zero, FDec(1, 10)}}

AngIdle ==
  /\ rad = Zero
  /\ once = Zero
  /\ twice = Zero
  /\ angPc = "input"

AngInit ==
  /\ rad \in Angles
  /\ once = Zero
  /\ twice = Zero
  /\ angPc = "input"

Normalize ==
  /\ angPc = "input"
  /\ once' = normalize_angle(rad)
  /\ angPc' = "once"
  /\ UNCHANGED <<rad, twice, nodeVars, seVars>>

NormalizeAgain ==
  /\ angPc = "once"
  /\ twice' = normalize_angle(once)
  /\ angPc' = "twice"
  /\ UNCHANGED <<rad, once, nodeVars, seVars>>

\* ------------------------------------------------------------------------
\* The specifications
\* ------------------------------------------------------------------------

vars == <<nodeVars, seVars, angVars>>

\* the SLAM node
Init == SlamInit /\ SeInit /\ AngIdle

Next ==
  \/ \E sample \in WheelSamples : joint_state_callback(sample)
  \/ fake_sensor_begin
  \/ fake_sensor_marker
  \/ fake_sensor_end

Spec == Init /\ [][Next]_vars

\* Transform2D objects
NextSE2 ==
  \/ \E T \in Constructed : SeConstruct(T)
  \/ SeMulAssign
  \/ SeInv
  \/ \E text \in Texts : SeParse(text)
  \/ \E text \in TwistTexts : SeParseTwist(text)
  \/ SeMulInv
  \/ \E v \in Vectors : SeApplyComposed(v)
  \/ \E p \in Points : SeRoundTrip(p)

SpecSE2 == Init /\ [][NextSE2]_vars

\* normalize_angle
InitAngle == SlamInit /\ SeInit /\ AngInit

NextAngle == Normalize \/ NormalizeAgain

SpecAngle == InitAngle /\ [][NextAngle]_vars

\* ------------------------------------------------------------------------
\* Properties
\* ------------------------------------------------------------------------

\* a and b differ by less than a thousandth (the model's numbers carry
\* MANT_BITS bits, between four and five decimal digits)
Tolerance == FDec(1, 1000)
Near(a, b) == FLt(FAbs(FSub(a, b)), Tolerance)

\* a lies in (-PI, PI], and in [-PI, PI]
InHalfOpenTurn(a) == FGt(a, FNeg(PI)) /\ FLe(a, PI)
InClosedTurn(a) == FGe(a, FNeg(PI)) /\ FLe(a, PI)

\* C1: for every transform T, T * T.inv() as operator* computes it is the
\* identity, rotation 0 and translation (0, 0), within tolerance
MulInvIsIdentity ==
  last.op = "mul_inv" =>
    /\ Near(rotation(last.out), Zero)
    /\ Near(translation(last.out).x, Zero)
    /\ Near(translation(last.out).y, Zero)

\* C2: for all transforms A and B and every vector v, (A * B)(v) is A(B(v))
ComposedIsSequential ==
  last.op = "compose" =>
    /\ Near(last.out.x, last.ref.x)
    /\ Near(last.out.y, last.ref.y)

\* C3: for every transform T and every point p, T.inv()(T(p)) is p within
\* tolerance
RoundTripReturnsPoint ==
  last.op = "round_trip" =>
    /\ Near(last.out.x, last.arg.x)
    /\ Near(last.out.y, last.arg.y)

\* C4, as claimed: every wheel sample consumed is followed by one
\* EKF_Slam_predict before the next sample is consumed (never two samples
\* without a prediction between them), and a prediction that follows one
\* sample uses the twist of that sample
PredictOncePerSample ==
  /\ pending <= 1
  /\ (nPredict > 0 /\ pending = 0 /\ covered = 1) => lastTwist = sampleTwist

\* C4, amended: EKF_Slam_predict runs once per fake_sensor_callback and never
\* in joint_state_callback, with the twist of the wheel displacement between
\* the wheel configuration this fake_sensor_callback reads and the one the
\* previous fake_sensor_callback read, however many samples lie between
PredictOncePerSensorMessage ==
  /\ nPredict = nSensor
  /\ prev_wheel_config = sensorWc[2]
  /\ nSensor > 0 => lastTwist = wheel_twist(nuturtle, sensorWc[2], sensorWc[1])
  /\ (nSensor > 0 /\ pending = 0) => sensorWc[2] = nuturtle.wheel_config

\* C4, witness: one prediction has covered two wheel samples
PredictCoversTwoSamples == nPredict = 1 /\ covered = 2 /\ lastTwist # sampleTwist

\* C5: after every wheel sample the published body twist is the twist of
\* the wheel displacement between that sample and the stored configuration
\* before it (so it is not zero when the two differ)
PublishedTwistIsDisplacement == odom_msg.twist = sampleTwist

\* C6: when EKF_Slam_update is called for a landmark whose slot is unseen,
\* the slot on return is the projection of the observation's range and
\* bearing from the robot pose of the state at the start of the call
FirstSeenSlotIsProjection ==
  \A k \in 1..Len(updLog) :
    updLog[k].report.fresh =>
      /\ Near(updLog[k].post.state[3 + 2 * updLog[k].report.id], updLog[k].report.proj.x)
      /\ Near(updLog[k].post.state[3 + 2 * updLog[k].report.id + 1],
              updLog[k].report.proj.y)

\* C7: the covariance is symmetric, covar(i, j) = covar(j, i) for all i, j,
\* initially and after every EKF_Slam_predict and EKF_Slam_update (as it is
\* when each of the two ends with a step that makes it so)
CovarSymmetric ==
  \A i \in Idx : \A j \in Idx : covar[i * STATE_SIZE + j] = covar[j * STATE_SIZE + i]

\* C8: rotation() of a transform obtained by constructions, compositions,
\* inversions and parses is in (-PI, PI]
RotationNormalized == InHalfOpenTurn(rotation(tf)) /\ InHalfOpenTurn(rotation(rhs))

\* the indices, in order, of the markers among the first n of m whose
\* action is not DELETE
NonDelete(m, n) == SelectSeq([i \in 1..n |-> i], LAMBDA i : m[i].action # "DELETE")

\* C9: for each MarkerArray EKF_Slam_update is called once for every marker
\* that is not a DELETE, in the order of the message, each call on the state
\* and covariance the previous one left (the first on what the prediction
\* left); a DELETE marker causes no call and changes neither
UpdatesFollowMarkers ==
  nSensor > 0 =>
    /\ Len(updLog) = Len(NonDelete(msg, mi - 1))
    /\ \A k \in 1..Len(updLog) :
         /\ updLog[k].i = NonDelete(msg, mi - 1)[k]
         /\ updLog[k].marker = msg[updLog[k].i]
         /\ updLog[k].pre = (IF k = 1 THEN predicted ELSE updLog[k - 1].post)
    /\ [state |-> state, covar |-> covar] =
         (IF Len(updLog) = 0 THEN predicted ELSE updLog[Len(updLog)].post)
    /\ pc = "idle" => mi = Len(msg) + 1

\* C9, witness: a fake_sensor_callback has returned whose message held a
\* DELETE marker and then a marker that is none, and one update was made
DeleteSkippedAddUpdated ==
  /\ pc = "idle"
  /\ Len(msg) = 2
  /\ msg[1].action = "DELETE"
  /\ msg[2].action = "ADD"
  /\ Len(updLog) = 1
  /\ updLog[1].i = 2

\* C10, as claimed: normalize_angle is idempotent, its values lie in
\* (-PI, PI], and PI and -PI are both left unchanged
NormalizeHalfOpen ==
  /\ angPc # "input" => InHalfOpenTurn(once)
  /\ angPc = "twice" => twice = once
  /\ (angPc # "input" /\ rad \in {PI, FNeg(PI)}) => once = rad

\* C10, amended: normalize_angle is idempotent, its values lie in [-PI, PI],
\* PI and -PI are both left unchanged, and an angle already in [-PI, PI] is
\* returned as it is
NormalizeClosed ==
  /\ angPc # "input" => InClosedTurn(once)
  /\ angPc = "twice" => twice = once
  /\ (angPc # "input" /\ rad \in {PI, FNeg(PI)}) => once = rad
  /\ (angPc # "input" /\ InClosedTurn(rad)) => once = rad

\* C10, witness: -PI has been normalised twice and is still -PI
MinusPiStable == angPc = "twice" /\ rad = FNeg(PI) /\ twice = FNeg(PI)

\* C11: when operator>> fails on a Transform2D or a Twist2D (a token is
\* missing or is no number, in the labelled or bracketed form or the bare
\* one), the stream reports the failure and the object read into is what it
\* was before the call
ParseFailureLeavesDestination ==
  /\ (last.op = "parse" /\ last.out) => tf = last.T
  /\ (last.op = "parse_twist" /\ last.out) => tw = last.T

\* C12: in every call of EKF_Slam_update the bearing component of the
\* innovation z - z_hat, which the gain multiplies into the state, lies in
\* (-PI, PI]
InnovationBearingNormalized ==
  \A k \in 1..Len(updLog) : InHalfOpenTurn(updLog[k].report.innov[1])

\* C13: for each landmark id the initialisation branch of EKF_Slam_update
\* is taken at most once over all the calls for that id, and then on the
\* first of them, never on a later one
InitialisedOnce ==
  \A id \in 0..(MAX_OBSTACLES - 1) : initAt[id] = <<>> \/ initAt[id] = <<1>>

\* C13, witness: EKF_Slam_update has run twice for landmark 0 and took the
\* initialisation branch the first time only
SecondUpdateNotInitialised == nUpdates[0] = 2 /\ initAt[0] = <<1>>

\* the entry A(i, 0) that matches the mean update of EKF_Slam_predict for a
\* twist, at the heading theta the mean update started from: the derivative
\* by the heading of the increment of x (i = 1) or of y (i = 2)
MatchingA(i, theta, twist) ==
  IF almost_equal(twist.omega, Zero)
  THEN (IF i = 1 THEN FMul(FNeg(twist.x), FSin(theta)) ELSE FMul(twist.x, FCos(theta)))
  ELSE FMul(FDiv(twist.x, twist.omega),
            IF i = 1 THEN FSub(FCos(FAdd(theta, twist.omega)), FCos(theta))
            ELSE FSub(FSin(FAdd(theta, twist.omega)), FSin(theta)))

\* C14: the A_t of every EKF_Slam_predict has, in both branches, A(1, 0) and
\* A(2, 0) equal to the derivatives by the heading of the x and y increments
\* of the mean update, taken at the heading before the call
JacobianMatchesMean ==
  nPredict > 0 =>
    /\ Near(jacobian.A_t[1 * STATE_SIZE], MatchingA(1, jacobian.theta, lastTwist))
    /\ Near(jacobian.A_t[2 * STATE_SIZE], MatchingA(2, jacobian.theta, lastTwist))

\* C15: in every call of EKF_Slam_update the squared distance d between the
\* landmark's and the robot's estimated positions is strictly positive
\* where H is built, a first observation of range 0 included
SquaredDistancePositive ==
  \A k \in 1..Len(updLog) : FGt(updLog[k].report.d, Zero)

\* the entries of the state that hold landmark id
Slot(id) == {3 + 2 * id, 3 + 2 * id + 1}

\* C16: a landmark id no EKF_Slam_update was ever called for has its slot at
\* exactly (0, 0) and covariance exactly 0 with every other entry of the
\* state, whatever predictions and updates for other ids have run
UnseenSlotUntouched ==
  \A id \in 0..(MAX_OBSTACLES - 1) :
    nUpdates[id] = 0 =>
      \A i \in Slot(id) :
        /\ state[i] = Zero
        /\ \A l \in Idx \ {i} :
             covar[i * STATE_SIZE + l] = Zero /\ covar[l * STATE_SIZE + i] = Zero

\* C17: the wheel displacements handed to wheel_twist for the predictions
\* so far sum, per wheel, to the wheel configuration the last
\* fake_sensor_callback read (the initial one being (0, 0)), and
\* prev_wheel_config is that configuration
WheelMotionConserved ==
  /\ Near(handed.left, sensorWc[2].left)
  /\ Near(handed.right, sensorWc[2].right)
  /\ prev_wheel_config = sensorWc[2]

\* C17, witness: two predictions have run, the first before any wheel sample
\* and the second after one, and the wheels have not stood still
SecondPredictTakesSample ==
  /\ nSensor = 2
  /\ sensorWc[1] = WheelConfig(Zero, Zero)
  /\ sensorWc[2] # WheelConfig(Zero, Zero)
  /\ handed = sensorWc[2]

====
